---- MODULE Spec2Model ----
(***************************************************************************)
(* Tone playback and crossfade engine of src/js/infra/messenger.js.        *)
(*                                                                         *)
(* The module-level variables of the engine are the state; every engine    *)
(* call (playFrequency, transitionFrequency, stopSound) is an async        *)
(* function that runs synchronously up to its first await, so a call is a  *)
(* record with a program counter, and the event loop is modelled as:       *)
(*   - a FIFO queue of promise continuations (microtasks),                 *)
(*   - pending setTimeout timers, fired only when the microtask queue is   *)
(*     empty, earliest deadline first,                                     *)
(*   - pending audioContext.resume() promises, settled by the platform.    *)
(***************************************************************************)
EXTENDS Integers, Sequences, FiniteSets, TLC

\* ------------------------------------------------------------------------
\* Bounds
\* ------------------------------------------------------------------------
MaxCalls == 3

\* ------------------------------------------------------------------------
\* JavaScript values passed as a frequency
\* ------------------------------------------------------------------------
Num(n) == [type |-> "number", nan |-> FALSE, val |-> n]

NaN == [type |-> "number", nan |-> TRUE, val |-> 0]

InvalidInputs == {Num(-5), Num(0), Num(25000), NaN}

\* the frequencies the calls are made with: two station tones, one used to
\* start playback and one to switch to, and the invalid values
PlayInputs == {Num(432)} \cup InvalidInputs

TransitionInputs == {Num(528)} \cup InvalidInputs

\* the validation with the ceiling itself accepted
isValidFrequencyCeiling(freq) ==
    /\ freq.type = "number"
    /\ ~freq.nan
    /\ freq.val > 0
    /\ freq.val <= 20000

\* the validation with its lower bound off by one: 0 Hz passes
isValidFrequencyInclusive(freq) ==
    /\ freq.type = "number"
    /\ ~freq.nan
    /\ freq.val >= 0
    /\ freq.val < 20000

\* Comparisons with NaN are false.
isValidFrequency(freq) ==
    /\ freq.type = "number"
    /\ ~freq.nan
    /\ freq.val > 0
    /\ freq.val < 20000

\* ------------------------------------------------------------------------
\* State
\* ------------------------------------------------------------------------
VARIABLES
    audioContext,   \* "null" | "suspended" | "running"
    gainNode,       \* [exists, value, sched]: gain in thousandths, automation events;
                    \* [contexts, gains, outputs]: AudioContexts and GainNodes
                    \* constructed so far, nodes connected to the destination
    oscillator,     \* id of the current voice, 0 for null
    isPlaying,      \* BOOLEAN
    tol_volume,     \* localStorage 'tol_volume': -1 when not stored, else 0..100
    voices,         \* every OscillatorNode created so far, by id
    timers,         \* pending setTimeout callbacks, in creation order
    microtasks,     \* promise continuations ready to run, FIFO, as call ids
    calls,          \* every engine call made so far, in invocation order
    state,          \* commander.js: [currentNeter, isPlaying, isMuted, sessionStart]
    autoplay,       \* the 'autoplay' setting
    handlers,       \* every selectNeter / handlePlayPause run so far
    sessions,       \* the session log written by logSession, oldest first
    now,            \* Date.now(), in ms since the page was loaded
    modalRecording, \* commander.js: [isRecording, recognition, hasError]
    recognitions,   \* every SpeechRecognition constructed so far, by id
    journalModal,   \* the journal modal carries the class 'visible'
    journalTimers   \* pending setTimeout callbacks of the journal handlers

engine == <<audioContext, gainNode, oscillator, isPlaying, tol_volume, voices, timers>>

\* the orchestrator's variables and the wall clock: no engine action writes
\* them
journal == <<modalRecording, recognitions, journalModal, journalTimers>>

app == <<state, autoplay, handlers, sessions, now, journal>>

vars == <<audioContext, gainNode, oscillator, isPlaying, tol_volume, voices, timers,
          microtasks, calls, state, autoplay, handlers, sessions, now,
          modalRecording, recognitions, journalModal, journalTimers>>

\* ------------------------------------------------------------------------
\* Pure helpers
\* ------------------------------------------------------------------------
DefaultVolume == 75

getVolume == IF tol_volume = -1 THEN DefaultVolume ELSE tol_volume

\* a conversion to full scale: storedVolume / 100, in thousandths
TargetVolumeFullScale(storedVolume) == storedVolume * 10

\* (storedVolume / 100) * 0.3, in thousandths
TargetVolume(storedVolume) == storedVolume * 3

\* The record of one engine call: which function, its argument, where it is
\* suspended, how its promise settled, the voice it created and the voice it
\* made outgoing, whether its resume() was declined, whether a timer of an
\* earlier call was pending when it was made, whether every earlier call
\* had completed when it was made, whether its cleanup callback
\* disconnected the outgoing voice before that voice's scheduled stop, the
\* Date.now() it returned, and when the timer it awaits is due.
NewCall(op, arg) ==
    [op |-> op, arg |-> arg, path |-> "none", pc |-> "start", result |-> "pending",
     ret |-> "none", err |-> "none", voice |-> 0, old |-> 0, declined |-> FALSE,
     overlaps |-> timers # <<>>,
     alone |-> \A k \in 1..Len(calls) : calls[k].pc = "done",
     early |-> FALSE,
     ts |-> 0, due |-> 0]

NewVoice(freq) ==
    [freq |-> freq.val, started |-> 0, stops |-> 0, connected |-> FALSE,
     disconnects |-> 0, late |-> FALSE]

\* Operations on an OscillatorNode; an operation on a node that was already
\* disconnected is remembered in 'late'.
VoiceConnect(v) == [v EXCEPT !.connected = TRUE, !.late = v.late \/ v.disconnects > 0]

VoiceStart(v) == [v EXCEPT !.started = v.started + 1, !.late = v.late \/ v.disconnects > 0]

VoiceStop(v) == [v EXCEPT !.stops = v.stops + 1, !.late = v.late \/ v.disconnects > 0]

VoiceDisconnect(v) ==
    [v EXCEPT !.connected = FALSE, !.disconnects = v.disconnects + 1,
              !.late = v.late \/ v.disconnects > 0]

\* AudioScheduledSourceNode.stop() throws InvalidStateError when start() was
\* never called.
StopThrows(v) == v.started = 0

\* the promise is fulfilled; a timestamp is the Date.now() of this moment
Resolve(c, ret) ==
    [c EXCEPT !.pc = "done", !.result = "resolved", !.ret = ret,
              !.ts = IF ret = "ts" THEN now ELSE 0]

Reject(c, err) == [c EXCEPT !.pc = "done", !.result = "rejected", !.err = err]

Schedule(events) == [gainNode EXCEPT !.sched = gainNode.sched \o events]

Set(v) == [kind |-> "set", target |-> v]

Ramp(v) == [kind |-> "ramp", target |-> v]

\* stopSound's fadeTime * 1000
FadeMs == 800

FadeTimer(cid) == [kind |-> "fade", call |-> cid, voice |-> 0]

CleanupTimer(cid, v) == [kind |-> "cleanup", call |-> cid, voice |-> v]

RemoveAt(s, i) == SubSeq(s, 1, i - 1) \o SubSeq(s, i + 1, Len(s))

\* core/pure.js createInitialState; sessionStart is 0 when it is null, else
\* the id of the play call whose returned timestamp it holds
createInitialState ==
    [currentNeter |-> 0, isPlaying |-> FALSE, isMuted |-> FALSE, sessionStart |-> 0]

\* ------------------------------------------------------------------------
\* Initial state: module load
\* ------------------------------------------------------------------------
Init ==
    /\ audioContext = "null"
    /\ gainNode = [exists |-> FALSE, value |-> 0, sched |-> <<>>,
                   contexts |-> 0, gains |-> 0, outputs |-> {}]
    /\ oscillator = 0
    /\ isPlaying = FALSE
    /\ tol_volume = -1
    /\ voices = <<>>
    /\ timers = <<>>
    /\ microtasks = <<>>
    /\ calls = <<>>
    /\ state = createInitialState
    /\ autoplay = FALSE
    /\ handlers = <<>>
    /\ sessions = <<>>
    /\ now = 0
    /\ modalRecording = [isRecording |-> FALSE, recognition |-> 0, hasError |-> FALSE]
    /\ recognitions = <<>>
    /\ journalModal = FALSE
    /\ journalTimers = <<>>

\* ------------------------------------------------------------------------
\* ensureAudioContext, up to its await: creates the context and the gain
\* node on first use (the platform decides whether a new context starts
\* suspended), then either awaits resume() or returns.  The caller awaits
\* the returned promise, so its continuation is a microtask at the earliest.
\* ------------------------------------------------------------------------
\* an ensureAudioContext without the guard of line 26: every call
\* constructs a context and a gain node
ensureAudioContextEveryCall(cid, c, st) ==
    /\ audioContext' = st
    /\ gainNode' = [exists |-> TRUE, value |-> 0, sched |-> <<>>,
                    contexts |-> gainNode.contexts + 1,
                    gains |-> gainNode.gains + 1,
                    outputs |-> gainNode.outputs \cup {"gainNode"}]
    /\ calls' = Append(calls, [c EXCEPT !.pc = IF st = "suspended"
                                               THEN "resume" ELSE "ensured"])
    /\ microtasks' = IF st = "suspended" THEN microtasks
                     ELSE Append(microtasks, cid)
    /\ UNCHANGED <<oscillator, isPlaying, tol_volume, voices, timers>>

ensureAudioContext(cid, c, st) ==
    LET ctx == IF audioContext = "null" THEN st ELSE audioContext
    IN  /\ audioContext' = ctx
        /\ gainNode' = IF audioContext = "null"
                       THEN [exists |-> TRUE, value |-> 0, sched |-> <<>>,
                             contexts |-> gainNode.contexts + 1,
                             gains |-> gainNode.gains + 1,
                             outputs |-> gainNode.outputs \cup {"gainNode"}]
                       ELSE gainNode
        /\ calls' = Append(calls, [c EXCEPT !.pc = IF ctx = "suspended"
                                                   THEN "resume" ELSE "ensured"])
        /\ microtasks' = IF ctx = "suspended" THEN microtasks
                         ELSE Append(microtasks, cid)
        /\ UNCHANGED <<oscillator, isPlaying, tol_volume, voices, timers>>

\* audioContext.resume() settles: fulfilled (the context runs) or rejected
\* (autoplay policy; the catch swallows it).
ResumeSettle(cid, ok) ==
    /\ microtasks = <<>>
    /\ cid \in 1..Len(calls)
    /\ calls[cid].pc = "resume"
    /\ ok \/ audioContext = "suspended"
    /\ audioContext' = IF ok THEN "running" ELSE audioContext
    /\ calls' = [calls EXCEPT ![cid].pc = "ensured",
                              ![cid].declined = @ \/ ~ok]
    /\ microtasks' = <<cid>>
    /\ UNCHANGED <<gainNode, oscillator, isPlaying, tol_volume, voices, timers>>

\* ------------------------------------------------------------------------
\* playFrequency
\* ------------------------------------------------------------------------
playFrequency(frequency, st) ==
    /\ Len(calls) < MaxCalls
    /\ LET cid == Len(calls) + 1
           c == NewCall("play", frequency)
       IN  IF ~isValidFrequency(frequency)
           THEN /\ calls' = Append(calls, Reject(c, "InvalidFrequency"))
                /\ UNCHANGED <<engine, microtasks>>
           ELSE ensureAudioContext(cid, [c EXCEPT !.path = "play"], st)

\* a play that leaves the gain at 0
PlayStartSilent(cid) ==
    LET id == Len(voices) + 1
    IN  /\ voices' = Append(voices, VoiceStart(VoiceConnect(NewVoice(calls[cid].arg))))
        /\ oscillator' = id
        /\ gainNode' = Schedule(<<Set(0), Ramp(0)>>)
        /\ isPlaying' = TRUE
        /\ calls' = [calls EXCEPT ![cid] = Resolve([@ EXCEPT !.voice = id], "ts")]
        /\ UNCHANGED <<audioContext, tol_volume, timers>>

\* a play that creates its voice and never sets isPlaying
PlayStartWithoutFlag(cid) ==
    LET id == Len(voices) + 1
        targetVolume == TargetVolume(getVolume)
    IN  /\ voices' = Append(voices, VoiceStart(VoiceConnect(NewVoice(calls[cid].arg))))
        /\ oscillator' = id
        /\ gainNode' = Schedule(<<Set(0), Ramp(targetVolume)>>)
        /\ isPlaying' = isPlaying
        /\ calls' = [calls EXCEPT ![cid] = Resolve([@ EXCEPT !.voice = id], "ts")]
        /\ UNCHANGED <<audioContext, tol_volume, timers>>

\* lines 62-78: create, connect and start the voice, schedule the fade in.
PlayStart(cid) ==
    LET id == Len(voices) + 1
        targetVolume == TargetVolume(getVolume)
    IN  /\ voices' = Append(voices, VoiceStart(VoiceConnect(NewVoice(calls[cid].arg))))
        /\ oscillator' = id
        /\ gainNode' = Schedule(<<Set(0), Ramp(targetVolume)>>)
        /\ isPlaying' = TRUE
        /\ calls' = [calls EXCEPT ![cid] = Resolve([@ EXCEPT !.voice = id], "ts")]
        /\ UNCHANGED <<audioContext, tol_volume, timers>>

\* a stopSound that returns to playFrequency without waiting for the fade
StopBeginInPlayNoWait(cid) ==
    /\ gainNode' = Schedule(<<Set(gainNode.value), Ramp(0)>>)
    /\ timers' = timers
    /\ calls' = [calls EXCEPT ![cid].pc = "stopped"]
    /\ UNCHANGED <<audioContext, oscillator, isPlaying, tol_volume, voices>>

\* stopSound lines 151-160 when called from playFrequency line 59
StopBeginInPlay(cid) ==
    /\ gainNode' = Schedule(<<Set(gainNode.value), Ramp(0)>>)
    /\ timers' = Append(timers, FadeTimer(cid))
    /\ calls' = [calls EXCEPT ![cid].pc = "fade", ![cid].due = now + FadeMs]
    /\ UNCHANGED <<audioContext, oscillator, isPlaying, tol_volume, voices>>

\* continuation of 'await ensureAudioContext()' in playFrequency
PlayAfterEnsure ==
    /\ microtasks # <<>>
    /\ LET cid == Head(microtasks)
       IN  /\ calls[cid].pc = "ensured"
           /\ calls[cid].path = "play"
           /\ IF oscillator # 0
              THEN IF ~isPlaying
                   THEN \* stopSound returns null at once
                        /\ calls' = [calls EXCEPT ![cid].pc = "stopped"]
                        /\ microtasks' = Append(Tail(microtasks), cid)
                        /\ UNCHANGED engine
                   ELSE /\ StopBeginInPlay(cid)
                        /\ microtasks' = Tail(microtasks)
              ELSE /\ PlayStart(cid)
                   /\ microtasks' = Tail(microtasks)

\* continuation of 'await stopSound()' in playFrequency
PlayAfterStop ==
    /\ microtasks # <<>>
    /\ LET cid == Head(microtasks)
       IN  /\ calls[cid].pc = "stopped"
           /\ PlayStart(cid)
           /\ microtasks' = Tail(microtasks)

\* ------------------------------------------------------------------------
\* transitionFrequency
\* ------------------------------------------------------------------------
transitionFrequency(newFrequency, st) ==
    /\ Len(calls) < MaxCalls
    /\ LET cid == Len(calls) + 1
           c == NewCall("transition", newFrequency)
       IN  IF ~isValidFrequency(newFrequency)
           THEN /\ calls' = Append(calls, Reject(c, "InvalidFrequency"))
                /\ UNCHANGED <<engine, microtasks>>
           ELSE IF oscillator = 0 \/ ~isPlaying
                THEN ensureAudioContext(cid, [c EXCEPT !.path = "play"], st)
                ELSE ensureAudioContext(cid, [c EXCEPT !.path = "xfade"], st)

\* a cleanup that disconnects whatever voice is current when it fires
CleanupTargetCurrent(t) == IF oscillator # 0 THEN oscillator ELSE t.voice

\* the voice a cleanup callback disconnects: the oldOscillator it closed over
CleanupTarget(t) == t.voice

\* a crossfade that never schedules the cleanup of the outgoing voice
ScheduleCleanupOmitted(cid, oldOscillator) == timers

\* the timers after line 129 has scheduled the cleanup of the outgoing voice
ScheduleCleanup(cid, oldOscillator) == Append(timers, CleanupTimer(cid, oldOscillator))

\* a crossfade whose incoming voice does not become current on creation
CrossfadeCurrentAtCompletion(cid) ==
    LET oldOscillator == oscillator
        id == Len(voices) + 1
        currentGain == gainNode.value
        targetVolume == TargetVolume(getVolume)
        stopped == IF StopThrows(voices[oldOscillator]) THEN voices
                   ELSE [voices EXCEPT ![oldOscillator] = VoiceStop(@)]
    IN  /\ voices' = Append(stopped, VoiceStart(VoiceConnect(NewVoice(calls[cid].arg))))
        /\ oscillator' = oldOscillator
        /\ gainNode' = Schedule(<<Set(currentGain), Ramp(0), Ramp(targetVolume)>>)
        /\ timers' = ScheduleCleanup(cid, oldOscillator)
        /\ isPlaying' = TRUE
        /\ calls' = [calls EXCEPT ![cid] = Resolve([@ EXCEPT !.voice = id,
                                                             !.old = oldOscillator],
                                                   "undefined")]
        /\ UNCHANGED <<audioContext, tol_volume>>

\* lines 98-141
Crossfade(cid) ==
    LET oldOscillator == oscillator
        id == Len(voices) + 1
        currentGain == gainNode.value
        targetVolume == TargetVolume(getVolume)
        stopped == IF StopThrows(voices[oldOscillator]) THEN voices
                   ELSE [voices EXCEPT ![oldOscillator] = VoiceStop(@)]
    IN  /\ voices' = Append(stopped, VoiceStart(VoiceConnect(NewVoice(calls[cid].arg))))
        /\ oscillator' = id
        /\ gainNode' = Schedule(<<Set(currentGain), Ramp(0), Ramp(targetVolume)>>)
        /\ timers' = ScheduleCleanup(cid, oldOscillator)
        /\ isPlaying' = TRUE
        /\ calls' = [calls EXCEPT ![cid] = Resolve([@ EXCEPT !.voice = id,
                                                             !.old = oldOscillator],
                                                   "undefined")]
        /\ UNCHANGED <<audioContext, tol_volume>>

\* continuation of 'await ensureAudioContext()' in transitionFrequency;
\* line 101 reads oscillator.frequency.value, a TypeError when oscillator
\* is null by now.
TransitionAfterEnsure ==
    /\ microtasks # <<>>
    /\ LET cid == Head(microtasks)
       IN  /\ calls[cid].pc = "ensured"
           /\ calls[cid].path = "xfade"
           /\ microtasks' = Tail(microtasks)
           /\ IF oscillator = 0
              THEN /\ calls' = [calls EXCEPT ![cid] = Reject(@, "TypeError")]
                   /\ UNCHANGED engine
              ELSE Crossfade(cid)

\* a cleanup callback that also marks the engine as not playing
CleanupTimerFireClearsPlaying ==
    /\ microtasks = <<>>
    /\ \E i \in 1..Len(timers) :
        /\ timers[i].kind = "cleanup"
        /\ \A j \in 1..(i - 1) : timers[j].kind # "cleanup"
        /\ voices' = [voices EXCEPT ![CleanupTarget(timers[i])] = VoiceDisconnect(@)]
        /\ timers' = RemoveAt(timers, i)
    /\ isPlaying' = FALSE
    /\ UNCHANGED <<audioContext, gainNode, oscillator, tol_volume, microtasks, calls>>

\* the deferred cleanup of lines 129-136; several may be pending, they have
\* the same delay and fire in creation order.
\* Line 124 schedules the outgoing voice's stop on the device clock, 0.175 s
\* after the crossfade began; line 129 sets the cleanup 275 ms later on the
\* wall clock.  The device clock of a running context advances with the
\* wall clock, that of a suspended context stands still.  A crossfade runs
\* on a suspended context exactly when its resume() was declined.  So the
\* cleanup comes after the stop when the context ran all along, before it
\* when the context is still suspended, and either way when the context
\* was resumed in between.
DisconnectsEarly(t) ==
    IF ~calls[t.call].declined THEN {FALSE}
    ELSE IF audioContext = "running" THEN BOOLEAN
    ELSE {TRUE}

\* lines 129-136: the cleanup callback of a crossfade runs
CleanupTimerFire ==
    /\ microtasks = <<>>
    /\ \E i \in 1..Len(timers), early \in BOOLEAN :
        /\ timers[i].kind = "cleanup"
        /\ \A j \in 1..(i - 1) : timers[j].kind # "cleanup"
        /\ early \in DisconnectsEarly(timers[i])
        /\ voices' = [voices EXCEPT ![CleanupTarget(timers[i])] = VoiceDisconnect(@)]
        /\ timers' = RemoveAt(timers, i)
        /\ calls' = [calls EXCEPT ![timers[i].call].early = early]
    /\ UNCHANGED <<audioContext, gainNode, oscillator, isPlaying, tol_volume,
                   microtasks>>

\* ------------------------------------------------------------------------
\* stopSound
\* ------------------------------------------------------------------------
\* a stopSound whose delay never ends: no timer is set
stopSoundNeverWakes ==
    /\ Len(calls) < MaxCalls
    /\ LET c == NewCall("stop", Num(0))
       IN  IF oscillator = 0 \/ ~isPlaying
           THEN /\ calls' = Append(calls, Resolve(c, "null"))
                /\ UNCHANGED <<engine, microtasks>>
           ELSE /\ gainNode' = Schedule(<<Set(gainNode.value), Ramp(0)>>)
                /\ calls' = Append(calls, [c EXCEPT !.path = "stop", !.pc = "fade"])
                /\ UNCHANGED <<audioContext, oscillator, isPlaying, tol_volume,
                               voices, timers, microtasks>>

\* a stopSound without the early return of line 149
stopSoundNoGuard ==
    /\ Len(calls) < MaxCalls
    /\ LET cid == Len(calls) + 1
           c == NewCall("stop", Num(0))
       IN  /\ gainNode' = Schedule(<<Set(gainNode.value), Ramp(0)>>)
           /\ timers' = Append(timers, FadeTimer(cid))
           /\ calls' = Append(calls, [c EXCEPT !.path = "stop", !.pc = "fade"])
           /\ UNCHANGED <<audioContext, oscillator, isPlaying, tol_volume,
                          voices, microtasks>>

\* a stopSound that tears the voice down at once instead of after the fade
stopSoundImmediate ==
    /\ Len(calls) < MaxCalls
    /\ LET c == NewCall("stop", Num(0))
       IN  IF oscillator = 0 \/ ~isPlaying
           THEN /\ calls' = Append(calls, Resolve(c, "null"))
                /\ UNCHANGED <<engine, microtasks>>
           ELSE /\ gainNode' = Schedule(<<Set(gainNode.value), Ramp(0)>>)
                /\ voices' = [voices EXCEPT ![oscillator] = VoiceDisconnect(VoiceStop(@))]
                /\ oscillator' = 0
                /\ isPlaying' = FALSE
                /\ calls' = Append(calls, Resolve([c EXCEPT !.path = "stop"], "ts"))
                /\ UNCHANGED <<audioContext, tol_volume, timers, microtasks>>

stopSound ==
    /\ Len(calls) < MaxCalls
    /\ LET cid == Len(calls) + 1
           c == NewCall("stop", Num(0))
       IN  IF oscillator = 0 \/ ~isPlaying
           THEN /\ calls' = Append(calls, Resolve(c, "null"))
                /\ UNCHANGED <<engine, microtasks>>
           ELSE /\ gainNode' = Schedule(<<Set(gainNode.value), Ramp(0)>>)
                /\ timers' = Append(timers, FadeTimer(cid))
                /\ calls' = Append(calls, [c EXCEPT !.path = "stop", !.pc = "fade",
                                                    !.due = now + FadeMs])
                /\ UNCHANGED <<audioContext, oscillator, isPlaying, tol_volume,
                               voices, microtasks>>

\* a teardown that forgets to drop the reference to the voice it disconnected
StopTeardownKeepsReference ==
    [voices |-> IF oscillator # 0 /\ ~StopThrows(voices[oscillator])
                THEN [voices EXCEPT ![oscillator] = VoiceDisconnect(VoiceStop(@))]
                ELSE voices,
     oscillator |-> oscillator,
     isPlaying |-> FALSE]

\* a teardown that disconnects the voice and leaves isPlaying as it was
StopTeardownLeavesPlaying ==
    [voices |-> IF oscillator # 0 /\ ~StopThrows(voices[oscillator])
                THEN [voices EXCEPT ![oscillator] = VoiceDisconnect(VoiceStop(@))]
                ELSE voices,
     oscillator |-> 0,
     isPlaying |-> isPlaying]

\* lines 162-172: PlaybackState and the voices after stopSound's delay.  When
\* stop() throws, the catch clears the state and the voice stays connected.
StopTeardown ==
    [voices |-> IF oscillator # 0 /\ ~StopThrows(voices[oscillator])
                THEN [voices EXCEPT ![oscillator] = VoiceDisconnect(VoiceStop(@))]
                ELSE voices,
     oscillator |-> 0,
     isPlaying |-> FALSE]

\* the 800 ms timer of line 160 fires and stopSound runs to its end.  Every
\* timer created before it has a shorter or equal delay, so it is the
\* oldest pending timer.
FadeTimerFire ==
    /\ microtasks = <<>>
    /\ timers # <<>>
    /\ Head(timers).kind = "fade"
    /\ LET cid == Head(timers).call
       IN  /\ voices' = StopTeardown.voices
           /\ oscillator' = StopTeardown.oscillator
           /\ isPlaying' = StopTeardown.isPlaying
           /\ timers' = Tail(timers)
           /\ IF calls[cid].path = "stop"
              THEN /\ calls' = [calls EXCEPT ![cid] = Resolve(@, "ts")]
                   /\ microtasks' = microtasks
              ELSE /\ calls' = [calls EXCEPT ![cid].pc = "stopped"]
                   /\ microtasks' = <<cid>>
    /\ UNCHANGED <<audioContext, gainNode, tol_volume>>

\* ------------------------------------------------------------------------
\* Time passes on the device clock of a running context until every
\* scheduled automation event of the gain parameter has been reached.
\* ------------------------------------------------------------------------
AudioClock ==
    /\ microtasks = <<>>
    /\ audioContext = "running"
    /\ gainNode.sched # <<>>
    /\ gainNode' = [gainNode EXCEPT !.value = gainNode.sched[Len(gainNode.sched)].target,
                                    !.sched = <<>>]
    /\ UNCHANGED <<audioContext, oscillator, isPlaying, tol_volume, voices, timers,
                   microtasks, calls>>

Next ==
    \/ /\ \E f \in PlayInputs, st \in {"suspended", "running"} : playFrequency(f, st)
       /\ UNCHANGED app
    \/ /\ \E f \in TransitionInputs, st \in {"suspended", "running"} :
               transitionFrequency(f, st)
       /\ UNCHANGED app
    \/ stopSound /\ UNCHANGED app
    \/ /\ \E cid \in 1..MaxCalls, ok \in BOOLEAN : ResumeSettle(cid, ok)
       /\ UNCHANGED app
    \/ PlayAfterEnsure /\ UNCHANGED app
    \/ PlayAfterStop /\ UNCHANGED app
    \/ TransitionAfterEnsure /\ UNCHANGED app
    \/ FadeTimerFire /\ UNCHANGED app
    \/ CleanupTimerFire /\ UNCHANGED app
    \/ AudioClock /\ UNCHANGED app

Spec == Init /\ [][Next]_vars

\* ------------------------------------------------------------------------
\* Vocabulary of the properties
\* ------------------------------------------------------------------------
CallIds == 1..Len(calls)

VoiceIds == 1..Len(voices)

\* every call has completed, every timer has fired, nothing is queued
Settled ==
    /\ microtasks = <<>>
    /\ timers = <<>>
    /\ \A c \in CallIds : calls[c].pc = "done"

\* voices connected to the gain node
Connected == {v \in VoiceIds : voices[v].connected}

\* voices created and not yet disconnected
Existing == {v \in VoiceIds : voices[v].disconnects = 0}

PendingCleanups == {i \in 1..Len(timers) : timers[i].kind = "cleanup"}

PendingFades == {i \in 1..Len(timers) : timers[i].kind = "fade"}

\* the calls in flight in cs are all crossfading transitions
OnlyCrossfadesInFlight(cs) ==
    \A c \in 1..Len(cs) : cs[c].pc # "done" => cs[c].path = "xfade"

\* ------------------------------------------------------------------------
\* C1 (P1, mutual exclusion): once every call has completed and every timer
\* has fired, at most one voice is connected to the gain node.
\* ------------------------------------------------------------------------
C1_MutualExclusion == Settled => Cardinality(Connected) <= 1

\* settled after a crossfade whose cleanup has run: only the incoming voice
\* is still connected
C1_Witness ==
    /\ Settled
    /\ Cardinality(Connected) = 1
    /\ \E c \in CallIds : calls[c].old # 0 /\ ~voices[calls[c].old].connected

\* ------------------------------------------------------------------------
\* C2 (P2, monotonic currency): while the engine is playing and the only
\* calls in flight are crossfading transitions, no step (a further
\* transition call, its continuation, a resume settling, a cleanup timer)
\* makes isPlaying false.
\* ------------------------------------------------------------------------
C2_MonotonicCurrency ==
    [][(isPlaying /\ OnlyCrossfadesInFlight(calls) /\ OnlyCrossfadesInFlight(calls'))
        => isPlaying']_vars

\* two crossfades overlap: both cleanup timers pending, still playing
C2_Witness ==
    /\ isPlaying
    /\ Cardinality(PendingCleanups) >= 2
    /\ OnlyCrossfadesInFlight(calls)

\* ------------------------------------------------------------------------
\* C3 (supersession): when the latest call is a play or transition that was
\* made while an earlier operation's timer was pending and that created a
\* voice, then after all timers have fired that voice is the current voice
\* and isPlaying is true.
\* ------------------------------------------------------------------------
C3_Supersession ==
    (Settled /\ calls # <<>>) =>
        LET c == calls[Len(calls)]
        IN  (c.op \in {"play", "transition"} /\ c.overlaps /\ c.voice # 0)
                => (oscillator = c.voice /\ isPlaying)

\* ------------------------------------------------------------------------
\* C4 (state before delay): while the latest call is a stop() suspended on
\* its fade delay, PlaybackState already reads {activeVoice: null,
\* isPlaying: false}.
\* ------------------------------------------------------------------------
C4_StateBeforeDelay ==
    (calls # <<>> /\ calls[Len(calls)].path = "stop" /\ calls[Len(calls)].pc = "fade")
        => (oscillator = 0 /\ ~isPlaying)

\* ------------------------------------------------------------------------
\* C5 (overlapping crossfades): a step that creates a voice cancels no
\* pending timer, and a step in which a cleanup timer fires disconnects
\* exactly the voice that was outgoing in the transition that scheduled the
\* timer, which is not the current voice, and changes nothing else.
\* ------------------------------------------------------------------------
C5_CleanupOwnVoice ==
    [][ /\ (Len(voices') > Len(voices)) => (SubSeq(timers', 1, Len(timers)) = timers)
        /\ \A i \in PendingCleanups :
              (timers' = RemoveAt(timers, i)) =>
                  LET v == calls[timers[i].call].old
                  IN  /\ v # oscillator
                      /\ voices[v].connected
                      /\ voices' = [voices EXCEPT ![v] = VoiceDisconnect(@)]
                      /\ oscillator' = oscillator
                      /\ isPlaying' = isPlaying ]_vars

\* the first of two overlapping crossfades has been cleaned up while the
\* second one's timer is still pending and its incoming voice plays
C5_Witness ==
    /\ Cardinality(PendingCleanups) >= 1
    /\ oscillator # 0
    /\ voices[oscillator].connected
    /\ \E c \in CallIds : /\ calls[c].old # 0
                          /\ voices[calls[c].old].disconnects = 1
                          /\ \A i \in PendingCleanups : timers[i].call > c

\* ------------------------------------------------------------------------
\* C6 (lifecycle rule): at most one voice is current and at most two voices
\* exist (created and not yet disconnected) at once.
\* ------------------------------------------------------------------------
C6_AtMostTwoVoices ==
    /\ oscillator \in {0} \cup VoiceIds
    /\ Cardinality(Existing) <= 2

\* ------------------------------------------------------------------------
\* C7 (voice lifecycle): every voice is started exactly once, stopped at
\* most once, disconnected at most once, and nothing is invoked on it after
\* its disconnect.
\* ------------------------------------------------------------------------
C7_VoiceLifecycle ==
    \A v \in VoiceIds :
        /\ voices[v].started = 1
        /\ voices[v].stops <= 1
        /\ voices[v].disconnects <= 1
        /\ ~voices[v].late

\* a voice torn down by stopSound while an older one, outgoing in a
\* crossfade, has been disconnected by its cleanup timer
C7_Witness ==
    \E v, w \in VoiceIds :
        /\ v # w
        /\ voices[v].stops = 1 /\ voices[v].disconnects = 1
        /\ voices[w].stops = 1 /\ voices[w].disconnects = 1
        /\ \E c \in CallIds : calls[c].old = v

\* ------------------------------------------------------------------------
\* C8 (propagation policy): a call rejects only with InvalidFrequency.
\* ------------------------------------------------------------------------
C8_OnlyInvalidFrequencyRejects ==
    \A c \in CallIds : calls[c].result = "rejected" => calls[c].err = "InvalidFrequency"

\* ------------------------------------------------------------------------
\* C9 (DeviceUnavailable is soft): a play whose resume attempt was declined,
\* the device still being suspended, resolves without creating a voice or
\* setting isPlaying.
\* ------------------------------------------------------------------------
C9_DeclinedResumeNoOp ==
    \A c \in CallIds :
        (calls[c].op = "play" /\ calls[c].declined /\ calls[c].pc = "done"
            /\ audioContext = "suspended")
        => (calls[c].result = "resolved" /\ calls[c].voice = 0)

\* ------------------------------------------------------------------------
\* C10 (InvalidFrequency has no side effects): a play or transition call
\* with an invalid frequency rejects with InvalidFrequency and leaves the
\* device, the gain node and its schedule, the voices, the timers, the
\* queued continuations, activeVoice and isPlaying unchanged.
\* ------------------------------------------------------------------------
C10_InvalidFrequencyNoEffect ==
    [][(Len(calls') = Len(calls) + 1 /\ calls'[Len(calls')].arg \in InvalidInputs
            /\ calls'[Len(calls')].op \in {"play", "transition"})
        => /\ calls'[Len(calls')].result = "rejected"
           /\ calls'[Len(calls')].err = "InvalidFrequency"
           /\ UNCHANGED <<engine, microtasks>>]_vars

\* an invalid frequency rejected in the middle of a crossfade
C10_Witness ==
    /\ calls # <<>>
    /\ calls[Len(calls)].err = "InvalidFrequency"
    /\ isPlaying
    /\ PendingCleanups # {}

\* ------------------------------------------------------------------------
\* Frequency validation on its boundaries: calls made with values around the
\* limits of isValidFrequency and with a value that is not a number.
\* ------------------------------------------------------------------------
MaxProbes == 2

Str(n) == [type |-> "string", nan |-> FALSE, val |-> n]

BoundaryInputs ==
    {Num(-5), Num(0), Num(1), Num(432), Num(19999), Num(20000), Num(25000), NaN, Str(432)}

NextP5 ==
    \/ /\ Len(calls) < MaxProbes
       /\ \E f \in BoundaryInputs, st \in {"suspended", "running"} : playFrequency(f, st)
       /\ UNCHANGED app
    \/ /\ Len(calls) < MaxProbes
       /\ \E f \in BoundaryInputs, st \in {"suspended", "running"} :
              transitionFrequency(f, st)
       /\ UNCHANGED app
    \/ /\ \E cid \in 1..MaxCalls, ok \in BOOLEAN : ResumeSettle(cid, ok)
       /\ UNCHANGED app
    \/ PlayAfterEnsure /\ UNCHANGED app
    \/ PlayAfterStop /\ UNCHANGED app
    \/ TransitionAfterEnsure /\ UNCHANGED app
    \/ FadeTimerFire /\ UNCHANGED app
    \/ CleanupTimerFire /\ UNCHANGED app
    \/ AudioClock /\ UNCHANGED app

SpecP5 == Init /\ [][NextP5]_vars

\* the values P5 names as rejected: not a number, or not strictly between 0
\* and the 20000 Hz ceiling
P5Rejected == {Num(-5), Num(0), Num(20000), Num(25000), NaN, Str(432)}

\* ------------------------------------------------------------------------
\* C11 (P5, frequency validation): a play or transition call rejects with
\* InvalidFrequency exactly when its argument is not a number strictly
\* greater than 0 and strictly below 20000; play with a valid frequency,
\* once completed, has resolved.
\* ------------------------------------------------------------------------
C11_FrequencyValidation ==
    \A c \in CallIds :
        calls[c].op \in {"play", "transition"} =>
            /\ (calls[c].err = "InvalidFrequency") <=> (calls[c].arg \in P5Rejected)
            /\ (calls[c].arg \in P5Rejected) => (calls[c].result = "rejected")
            /\ (calls[c].op = "play" /\ calls[c].arg \notin P5Rejected
                    /\ calls[c].pc = "done") => (calls[c].result = "resolved")

\* play(20000) was rejected and play(19999) has resolved
C11_Witness ==
    \E c, d \in CallIds :
        /\ calls[c].op = "play" /\ calls[c].arg = Num(20000)
        /\ calls[c].err = "InvalidFrequency"
        /\ calls[d].op = "play" /\ calls[d].arg = Num(19999)
        /\ calls[d].result = "resolved"

\* ------------------------------------------------------------------------
\* C12 (stop clears the state): in the step in which a stop() call that
\* found a voice active resolves, it returns a timestamp and PlaybackState
\* becomes {activeVoice: null, isPlaying: false}.
\* ------------------------------------------------------------------------
C12_StopClearsState ==
    [][\A c \in CallIds :
          (calls[c].path = "stop" /\ calls[c].pc # "done" /\ calls'[c].pc = "done")
          => /\ calls'[c].result = "resolved"
             /\ calls'[c].ret = "ts"
             /\ oscillator' = 0
             /\ ~isPlaying']_vars

\* a stop() that tore down the incoming voice of a crossfade has resolved
C12_Witness ==
    \E c \in CallIds :
        /\ calls[c].path = "stop" /\ calls[c].ret = "ts"
        /\ oscillator = 0 /\ ~isPlaying
        /\ \E v \in VoiceIds : voices[v].disconnects = 1

\* ------------------------------------------------------------------------
\* C13 (P3, idempotent stop): a stop() made when no voice is active resolves
\* with null and changes nothing; and a stop() made right after a stop()
\* that has resolved, no other call having been in flight meanwhile,
\* returns null.
\* ------------------------------------------------------------------------
C13_IdempotentStop ==
    [][(Len(calls') = Len(calls) + 1 /\ calls'[Len(calls')].op = "stop")
        => /\ (oscillator = 0 \/ ~isPlaying)
                => /\ calls'[Len(calls')].result = "resolved"
                   /\ calls'[Len(calls')].ret = "null"
                   /\ UNCHANGED <<engine, microtasks>>
           /\ (calls # <<>> /\ calls[Len(calls)].op = "stop" /\ calls[Len(calls)].alone
                   /\ calls[Len(calls)].pc = "done")
                => /\ calls'[Len(calls')].result = "resolved"
                   /\ calls'[Len(calls')].ret = "null"]_vars

\* stop() returned a timestamp and the stop() after it returned null
C13_Witness ==
    /\ Len(calls) >= 2
    /\ calls[Len(calls) - 1].op = "stop" /\ calls[Len(calls) - 1].ret = "ts"
    /\ calls[Len(calls) - 1].alone
    /\ calls[Len(calls)].op = "stop" /\ calls[Len(calls)].ret = "null"

\* ------------------------------------------------------------------------
\* C14 (stop resolves after the fade): a stop() call that found a voice
\* active leaves the voices untouched when it is made, stays pending while
\* its fade timer is pending, and completes only in the step in which that
\* timer fires.
\* ------------------------------------------------------------------------
C14_StopAfterFade ==
    [][ /\ \A c \in CallIds :
              (calls[c].path = "stop" /\ calls[c].pc # "done")
              => /\ calls[c].pc = "fade"
                 /\ calls[c].result = "pending"
                 /\ \E i \in PendingFades : timers[i] = FadeTimer(c)
                 /\ (calls'[c].pc = "done")
                        => (Head(timers) = FadeTimer(c) /\ timers' = Tail(timers))
        /\ (Len(calls') = Len(calls) + 1 /\ calls'[Len(calls')].op = "stop")
              => /\ voices' = voices
                 /\ (oscillator # 0 /\ isPlaying)
                        => /\ calls'[Len(calls')].result = "pending"
                           /\ timers' = Append(timers, FadeTimer(Len(calls')))
      ]_vars

\* stop() is suspended on its fade timer and the voice is still connected
\* and has not been stopped
C14_Witness ==
    \E c \in CallIds :
        /\ calls[c].path = "stop" /\ calls[c].pc = "fade"
        /\ oscillator # 0
        /\ voices[oscillator].connected
        /\ voices[oscillator].stops = 0

MaxControls == 3

Bool(b) == [type |-> "boolean", nan |-> FALSE, val |-> IF b THEN 1 ELSE 0]

\* the gain setMuteState assigns when unmuting: 0.15
UnmutedGain == 150

\* slider positions, and two values outside the slider's range
VolumeInputs == {-10, 0, 40, 100, 150}

\* commander.js line 1500: the application calls ensureAudioContext itself
ensureReady(st) ==
    /\ Len(calls) < MaxCalls
    /\ ensureAudioContext(Len(calls) + 1,
                          [NewCall("ensure", Num(0)) EXCEPT !.path = "ensure"], st)

\* the async function returns after its await
EnsureReadyAfterEnsure ==
    /\ microtasks # <<>>
    /\ LET cid == Head(microtasks)
       IN  /\ calls[cid].pc = "ensured"
           /\ calls[cid].path = "ensure"
           /\ calls' = [calls EXCEPT ![cid] = Resolve(@, "undefined")]
           /\ microtasks' = Tail(microtasks)
           /\ UNCHANGED engine

\* setMuteState line 232
setMuteState(muted, st) ==
    /\ Len(calls) < MaxCalls
    /\ ensureAudioContext(Len(calls) + 1,
                          [NewCall("mute", Bool(muted)) EXCEPT !.path = "mute"], st)

\* a setMuteState that silences by ending playback
MuteAfterEnsureStopsVoice ==
    /\ microtasks # <<>>
    /\ LET cid == Head(microtasks)
       IN  /\ calls[cid].pc = "ensured"
           /\ calls[cid].path = "mute"
           /\ gainNode' = [gainNode EXCEPT !.value = IF calls[cid].arg.val = 1
                                                     THEN 0 ELSE UnmutedGain]
           /\ isPlaying' = (isPlaying /\ calls[cid].arg.val = 0)
           /\ calls' = [calls EXCEPT ![cid] = Resolve(@, "undefined")]
           /\ microtasks' = Tail(microtasks)
           /\ UNCHANGED <<audioContext, oscillator, tol_volume, voices, timers>>

\* setMuteState line 233, the continuation of its await: the value of the
\* gain parameter is assigned; automation events already scheduled stay.
MuteAfterEnsure ==
    /\ microtasks # <<>>
    /\ LET cid == Head(microtasks)
       IN  /\ calls[cid].pc = "ensured"
           /\ calls[cid].path = "mute"
           /\ gainNode' = [gainNode EXCEPT !.value = IF calls[cid].arg.val = 1
                                                     THEN 0 ELSE UnmutedGain]
           /\ calls' = [calls EXCEPT ![cid] = Resolve(@, "undefined")]
           /\ microtasks' = Tail(microtasks)
           /\ UNCHANGED <<audioContext, oscillator, isPlaying, tol_volume, voices,
                          timers>>

\* Math.max(0, Math.min(100, volume))
ClampVolume(volume) ==
    IF volume < 0 THEN 0 ELSE IF volume > 100 THEN 100 ELSE volume

\* setVolume lines 181-199: synchronous; the value is stored as given
setVolume(volume) ==
    /\ Len(calls) < MaxCalls
    /\ LET c == Resolve(NewCall("volume", Num(volume)), "undefined")
       IN  /\ calls' = Append(calls, c)
           /\ IF ~gainNode.exists
              THEN UNCHANGED <<engine, microtasks>>
              ELSE /\ gainNode' = Schedule(<<Set(gainNode.value),
                                             Ramp(TargetVolume(ClampVolume(volume)))>>)
                   /\ tol_volume' = volume
                   /\ UNCHANGED <<audioContext, oscillator, isPlaying, voices,
                                  timers, microtasks>>

NextControls ==
    \/ /\ Len(calls) < MaxControls
       /\ \E st \in {"suspended", "running"} : ensureReady(st)
       /\ UNCHANGED app
    \/ /\ Len(calls) < MaxControls
       /\ \E st \in {"suspended", "running"} : playFrequency(Num(432), st)
       /\ UNCHANGED app
    \/ /\ Len(calls) < MaxControls
       /\ \E st \in {"suspended", "running"} : transitionFrequency(Num(528), st)
       /\ UNCHANGED app
    \/ /\ Len(calls) < MaxControls
       /\ stopSound
       /\ UNCHANGED app
    \/ /\ Len(calls) < MaxControls
       /\ \E muted \in BOOLEAN, st \in {"suspended", "running"} : setMuteState(muted, st)
       /\ UNCHANGED app
    \/ /\ Len(calls) < MaxControls
       /\ \E volume \in VolumeInputs : setVolume(volume)
       /\ UNCHANGED app
    \/ /\ \E cid \in 1..MaxCalls, ok \in BOOLEAN : ResumeSettle(cid, ok)
       /\ UNCHANGED app
    \/ EnsureReadyAfterEnsure /\ UNCHANGED app
    \/ MuteAfterEnsure /\ UNCHANGED app
    \/ PlayAfterEnsure /\ UNCHANGED app
    \/ PlayAfterStop /\ UNCHANGED app
    \/ TransitionAfterEnsure /\ UNCHANGED app
    \/ FadeTimerFire /\ UNCHANGED app
    \/ CleanupTimerFire /\ UNCHANGED app
    \/ AudioClock /\ UNCHANGED app

SpecControls == Init /\ [][NextControls]_vars

\* ------------------------------------------------------------------------
\* C16 (Scenario D, mute is decoupled from playback): every step of a
\* setMuteState call, with either argument and in any engine state, leaves
\* isPlaying, the current voice, every voice, the timers, the stored volume
\* and the scheduled automation unchanged; its last step changes only the
\* value of the gain node, to 0 or to 0.15.
\* ------------------------------------------------------------------------
C16_MuteDecoupled ==
    [][\A c \in 1..Len(calls') :
          (calls'[c].op = "mute" /\ (c > Len(calls) \/ calls'[c] # calls[c]))
          => /\ UNCHANGED <<isPlaying, oscillator, voices, timers, tol_volume>>
             /\ gainNode'.sched = gainNode.sched
             /\ (c <= Len(calls) /\ calls'[c].pc = "done")
                    => /\ audioContext' = audioContext
                       /\ gainNode' = [gainNode EXCEPT
                                          !.value = IF calls[c].arg = Bool(TRUE)
                                                    THEN 0 ELSE UnmutedGain]]_vars

\* muted and unmuted while playing: the voice started once, was never
\* stopped, is still connected, and the gain is at the unmuted level
C16_Witness ==
    /\ \E c, d \in CallIds :
          /\ c < d
          /\ calls[c].op = "mute" /\ calls[c].arg = Bool(TRUE) /\ calls[c].pc = "done"
          /\ calls[d].op = "mute" /\ calls[d].arg = Bool(FALSE) /\ calls[d].pc = "done"
    /\ isPlaying
    /\ oscillator # 0
    /\ voices[oscillator].connected
    /\ voices[oscillator].started = 1
    /\ voices[oscillator].stops = 0
    /\ gainNode.value = UnmutedGain

\* ------------------------------------------------------------------------
\* C17 (P4, volume bounds): for every percent in 0..100, the ramp target
\* setVolume(percent) schedules, and the ramp target play and transition
\* schedule when percent is the stored volume, is percent/100 x 0.3 (three
\* thousandths per percent), which lies in [0, 0.3].
\* ------------------------------------------------------------------------
C17_VolumeBounds ==
    [][LET sched == gainNode'.sched
           ceiling == sched[Len(sched)]
       IN  /\ (Len(calls') = Len(calls) + 1 /\ calls'[Len(calls')].op = "volume"
                   /\ calls'[Len(calls')].arg.val \in 0..100 /\ gainNode.exists)
               => /\ sched # <<>>
                  /\ ceiling = Ramp(3 * calls'[Len(calls')].arg.val)
                  /\ ceiling.target \in 0..300
           /\ \A c \in CallIds :
                 (calls[c].voice = 0 /\ calls'[c].voice # 0 /\ getVolume \in 0..100)
                 => /\ sched # <<>>
                    /\ ceiling = Ramp(3 * getVolume)
                    /\ ceiling.target \in 0..300]_vars

\* setVolume(40) was stored and a later play ramps the gain towards 0.12
C17_Witness ==
    /\ tol_volume = 40
    /\ \E c, d \in CallIds :
          /\ c < d
          /\ calls[c].op = "volume" /\ calls[c].arg = Num(40)
          /\ calls[d].op = "play" /\ calls[d].voice # 0
    /\ gainNode.sched # <<>>
    /\ gainNode.sched[Len(gainNode.sched)] = Ramp(120)

\* ------------------------------------------------------------------------
\* C18 (single device and gain node): in every state reached by ensure,
\* play, transition, stop, setMuteState and setVolume calls, at most one
\* AudioContext and one GainNode have been constructed, exactly one GainNode
\* exists once the context exists, only the gain node is connected to the
\* destination, and the step that constructs them is the invocation of a
\* call and leaves the gain at 0 with nothing scheduled.
\* ------------------------------------------------------------------------
C18_SingleDevice ==
    [][LET g == gainNode'
       IN  /\ g.contexts <= 1
           /\ g.gains = g.contexts
           /\ g.exists = (g.gains = 1)
           /\ (audioContext' = "null") = (g.contexts = 0)
           /\ g.outputs = IF g.exists THEN {"gainNode"} ELSE {}
           /\ g.contexts # gainNode.contexts
                => /\ gainNode.contexts = 0
                   /\ Len(calls') = Len(calls) + 1
                   /\ g.value = 0
                   /\ g.sched = <<>>]_vars

\* ensureAudioContext ran for an application call, a play and a
\* setMuteState, and one context and one gain node were constructed
C18_Witness ==
    /\ gainNode.contexts = 1
    /\ gainNode.gains = 1
    /\ voices # <<>>
    /\ \E c, d, e \in CallIds :
          /\ calls[c].op = "ensure" /\ calls[c].pc = "done"
          /\ calls[d].op = "play" /\ calls[d].pc = "done"
          /\ calls[e].op = "mute" /\ calls[e].pc = "done"

\* ------------------------------------------------------------------------
\* The orchestrator (app/commander.js) driving the engine: station
\* selections, play/pause clicks and the autoplay setting.  A user event is
\* a task of the event loop: it starts when no promise continuation is
\* queued.  The part of a handler after its await runs once the engine call
\* it awaits has completed, before any further task.  The browser lets the
\* AudioContext start running (a suspended context and a declined resume
\* are exercised with the engine alone).
\* ------------------------------------------------------------------------
MaxHandlers == 3

NeterIds == 0..1

\* core/pure.js PAUTTI_NETERU: the frequency of each neter
PAUTTI_NETERU == [id \in NeterIds |-> IF id = 0 THEN 432 ELSE 396]

updateNeterInState(s, neterId) ==
    [s EXCEPT !.currentNeter = neterId, !.isPlaying = FALSE, !.sessionStart = 0]

\* One run of a handler: the branch it took, the engine call it awaits (0
\* for none), whether a tone was playing (a current voice, the engine flag
\* set, no fade-out under way) and what the setting was when it began.
NewHandler(kind, branch, call) ==
    [kind |-> kind, branch |-> branch, call |-> call,
     pc |-> IF call = 0 THEN "done" ELSE "await",
     tone |-> (isPlaying /\ oscillator # 0 /\ PendingFades = {}),
     autoplay |-> autoplay]

HandlerReady(h) == handlers[h].pc = "await" /\ calls[handlers[h].call].pc = "done"

NoContinuationReady ==
    /\ microtasks = <<>>
    /\ \A h \in 1..Len(handlers) : ~HandlerReady(h)

\* commander.js lines 81-143, up to the await
selectNeter(neterId, ctx) ==
    /\ NoContinuationReady
    /\ Len(handlers) < MaxHandlers
    /\ LET wasPlaying == state.isPlaying
           frequency == Num(PAUTTI_NETERU[neterId])
           cid == Len(calls) + 1
       IN  /\ state' = updateNeterInState(state, neterId)
           /\ UNCHANGED <<autoplay, sessions, now, journal>>
           /\ IF wasPlaying /\ autoplay
              THEN /\ transitionFrequency(frequency, ctx)
                   /\ handlers' = Append(handlers, NewHandler("select", "transition", cid))
              ELSE IF wasPlaying
              THEN /\ stopSound
                   /\ handlers' = Append(handlers, NewHandler("select", "stop", cid))
              ELSE IF autoplay
              THEN /\ playFrequency(frequency, ctx)
                   /\ handlers' = Append(handlers, NewHandler("select", "play", cid))
              ELSE /\ handlers' = Append(handlers, NewHandler("select", "none", 0))
                   /\ UNCHANGED <<engine, microtasks, calls>>

\* commander.js lines 170-176 with handleStartSound and handleStopSound, up
\* to the await
handlePlayPause(ctx) ==
    /\ NoContinuationReady
    /\ Len(handlers) < MaxHandlers
    /\ LET cid == Len(calls) + 1
       IN  IF state.isPlaying
           THEN /\ stopSound
                /\ handlers' = Append(handlers, NewHandler("playpause", "stop", cid))
           ELSE /\ playFrequency(Num(PAUTTI_NETERU[state.currentNeter]), ctx)
                /\ handlers' = Append(handlers, NewHandler("playpause", "play", cid))
    /\ UNCHANGED <<state, autoplay, sessions, now, journal>>

\* commander.js lines 970-971: the autoplay checkbox
updateSetting(value) ==
    /\ NoContinuationReady
    /\ value # autoplay
    /\ autoplay' = value
    /\ UNCHANGED <<engine, microtasks, calls, state, handlers, sessions, now, journal>>

\* a duration rounded to the nearest second
SessionDurationRounded(stopTime, sessionStart) ==
    (stopTime - sessionStart + 500) \div 1000

\* commander.js line 209: Math.floor((stopTime - state.sessionStart) / 1000)
SessionDuration(stopTime, sessionStart) == (stopTime - sessionStart) \div 1000

\* a handleStopSound that leaves sessionStart in place
StoppedStateKeepsSession == [state EXCEPT !.isPlaying = FALSE]

\* commander.js lines 226-230 and 117-121
StoppedState == [state EXCEPT !.isPlaying = FALSE, !.sessionStart = 0]

\* The rest of a handler after its await: lines 111-113 (nothing is written
\* to state), 117-123 (stopped), 205-230 (a session is logged when there is
\* a start and a stop timestamp more than a second apart, then stopped),
\* 128-135 and 185-191 (started, unless the call rejected).  A log entry
\* remembers the calls its two timestamps came from.
HandlerContinue(h) ==
    /\ microtasks = <<>>
    /\ h \in 1..Len(handlers)
    /\ HandlerReady(h)
    /\ LET call == calls[handlers[h].call]
           duration == SessionDuration(call.ts, calls[state.sessionStart].ts)
       IN  IF handlers[h].branch = "stop"
           THEN /\ state' = StoppedState
                /\ sessions' = IF /\ handlers[h].kind = "playpause"
                                  /\ state.sessionStart # 0
                                  /\ call.ret = "ts"
                                  /\ duration > 0
                               THEN Append(sessions,
                                           [neterId |-> state.currentNeter,
                                            duration |-> duration,
                                            start |-> state.sessionStart,
                                            stop |-> handlers[h].call])
                               ELSE sessions
           ELSE /\ state' = IF handlers[h].branch = "play" /\ call.result = "resolved"
                            THEN [state EXCEPT !.isPlaying = TRUE,
                                               !.sessionStart = handlers[h].call]
                            ELSE state
                /\ sessions' = sessions
    /\ handlers' = [handlers EXCEPT ![h].pc = "done"]
    /\ UNCHANGED <<engine, microtasks, calls, autoplay, now, journal>>

NextOrch ==
    \/ \E neterId \in NeterIds : selectNeter(neterId, "running")
    \/ handlePlayPause("running")
    \/ \E value \in BOOLEAN : updateSetting(value)
    \/ \E h \in 1..MaxHandlers : HandlerContinue(h)
    \/ PlayAfterEnsure /\ UNCHANGED app
    \/ PlayAfterStop /\ UNCHANGED app
    \/ TransitionAfterEnsure /\ UNCHANGED app
    \/ NoContinuationReady /\ FadeTimerFire /\ UNCHANGED app
    \/ NoContinuationReady /\ CleanupTimerFire /\ UNCHANGED app
    \/ NoContinuationReady /\ AudioClock /\ UNCHANGED app

SpecOrch == Init /\ [][NextOrch]_vars

\* no handler is between its await and its end
NoHandlerInFlight == \A h \in 1..Len(handlers) : handlers[h].pc = "done"

\* ------------------------------------------------------------------------
\* C19 (switching station crossfades): every station selection made while
\* a tone is playing and autoplay is enabled calls the engine's transition
\* and takes its crossfade path.
\* ------------------------------------------------------------------------
C19_SelectionCrossfades ==
    \A h \in 1..Len(handlers) :
        (handlers[h].kind = "select" /\ handlers[h].tone /\ handlers[h].autoplay)
        => /\ handlers[h].branch = "transition"
           /\ calls[handlers[h].call].path = "xfade"

\* ------------------------------------------------------------------------
\* C20 (orchestrator and engine agree on playing): whenever no handler is
\* in flight, state.isPlaying equals the engine's isPlaying.
\* ------------------------------------------------------------------------
C20_PlayingAgreement == NoHandlerInFlight => (state.isPlaying = isPlaying)

\* ------------------------------------------------------------------------
\* C21 (the incoming voice is current at once): when two consecutive calls
\* are crossfading transitions and the second created its voice next after
\* the first, the voice the second made outgoing is the voice the first
\* created; that voice has been scheduled to stop, and the second call's
\* cleanup timer for it is pending or has disconnected it.
\* ------------------------------------------------------------------------
C21_IncomingIsCurrent ==
    \A c, d \in CallIds :
        (/\ d = c + 1
         /\ calls[c].path = "xfade" /\ calls[c].voice # 0
         /\ calls[d].path = "xfade" /\ calls[d].voice = calls[c].voice + 1)
        => /\ calls[d].old = calls[c].voice
           /\ voices[calls[c].voice].stops >= 1
           /\ \/ \E i \in PendingCleanups : timers[i] = CleanupTimer(d, calls[c].voice)
              \/ voices[calls[c].voice].disconnects >= 1

\* the second transition ran while the cleanup timer of the first was
\* still pending
C21_Witness ==
    \E c, d \in CallIds :
        /\ d = c + 1
        /\ calls[c].path = "xfade" /\ calls[c].voice # 0
        /\ calls[d].path = "xfade" /\ calls[d].voice = calls[c].voice + 1
        /\ \E i, j \in PendingCleanups :
              /\ i < j
              /\ timers[i] = CleanupTimer(c, calls[c].old)
              /\ timers[j] = CleanupTimer(d, calls[c].voice)

\* ------------------------------------------------------------------------
\* C22 (crossfade teardown order): no cleanup callback disconnects its
\* outgoing voice before that voice's scheduled stop has taken effect; once
\* a transition's cleanup has run its outgoing voice is not connected; and
\* after play then transition, settled, only the incoming voice is
\* connected.
\* ------------------------------------------------------------------------
C22_TeardownOrder ==
    /\ \A c \in CallIds : ~calls[c].early
    /\ \A c \in CallIds :
          (calls[c].old # 0 /\ \A i \in PendingCleanups : timers[i].call # c)
          => ~voices[calls[c].old].connected
    /\ (Settled /\ Len(calls) = 2 /\ calls[1].op = "play" /\ calls[1].voice # 0
            /\ calls[2].path = "xfade" /\ calls[2].voice # 0)
          => Connected = {calls[2].voice}

\* ------------------------------------------------------------------------
\* C23 (mute persists): while the latest setMuteState call is a completed
\* setMuteState(true), the gain value is 0 and every scheduled gain target
\* is 0.
\* ------------------------------------------------------------------------
C23_MutePersists ==
    \A c \in CallIds :
        (/\ calls[c].op = "mute" /\ calls[c].arg = Bool(TRUE) /\ calls[c].pc = "done"
         /\ \A d \in CallIds : (d > c) => calls[d].op # "mute")
        => /\ gainNode.value = 0
           /\ \A k \in 1..Len(gainNode.sched) : gainNode.sched[k].target = 0

\* ------------------------------------------------------------------------
\* C24 (PlaybackState is coherent): in every state between two steps of the
\* event loop, that is at every suspension point and in every quiescent
\* state, the engine has a current voice exactly when isPlaying is true.
\* ------------------------------------------------------------------------
C24_CoherentState == (oscillator # 0) <=> isPlaying

\* a stop is suspended on its fade while another call is suspended on
\* resume() or has its continuation queued, and a voice is current
C24_Witness ==
    /\ oscillator # 0
    /\ isPlaying
    /\ \E c, d \in CallIds :
          /\ calls[c].path = "stop" /\ calls[c].pc = "fade"
          /\ calls[d].pc \in {"resume", "ensured"}

\* ------------------------------------------------------------------------
\* Sessions: the orchestrator with the wall clock running.  Time passes in
\* steps of half a fade; stopSound's timer fires once its 800 ms have
\* passed, possibly late.
\* ------------------------------------------------------------------------
MaxTicks == 3

Tick ==
    /\ NoContinuationReady
    /\ now + FadeMs \div 2 <= MaxTicks * (FadeMs \div 2)
    /\ now' = now + FadeMs \div 2
    /\ UNCHANGED <<engine, microtasks, calls, state, autoplay, handlers, sessions,
                   journal>>

FadeTimerDue == timers # <<>> /\ now >= calls[Head(timers).call].due

NextSession ==
    \/ \E neterId \in NeterIds : selectNeter(neterId, "running")
    \/ handlePlayPause("running")
    \/ \E value \in BOOLEAN : updateSetting(value)
    \/ \E h \in 1..MaxHandlers : HandlerContinue(h)
    \/ Tick
    \/ PlayAfterEnsure /\ UNCHANGED app
    \/ PlayAfterStop /\ UNCHANGED app
    \/ TransitionAfterEnsure /\ UNCHANGED app
    \/ NoContinuationReady /\ FadeTimerDue /\ FadeTimerFire /\ UNCHANGED app
    \/ NoContinuationReady /\ CleanupTimerFire /\ UNCHANGED app
    \/ NoContinuationReady /\ AudioClock /\ UNCHANGED app

SpecSession == Init /\ [][NextSession]_vars

\* ------------------------------------------------------------------------
\* C25 (a session is logged at most once): no two entries of the session
\* log hold the same start timestamp, that is, come from the same
\* successful start of playback.
\* ------------------------------------------------------------------------
C25_LoggedAtMostOnce ==
    \A i, j \in 1..Len(sessions) :
        (sessions[i].start = sessions[j].start) => (i = j)

\* play/pause was clicked twice while playing, the second time during the
\* fade of the first stop; both stops returned a timestamp, one entry was
\* logged
C25_Witness ==
    /\ Len(sessions) = 1
    /\ \E g, h \in 1..Len(handlers) :
          /\ g < h
          /\ handlers[g].kind = "playpause" /\ handlers[g].branch = "stop"
          /\ handlers[h].kind = "playpause" /\ handlers[h].branch = "stop"
          /\ handlers[g].pc = "done" /\ handlers[h].pc = "done"
          /\ calls[handlers[g].call].ret = "ts"
          /\ calls[handlers[h].call].ret = "ts"
          /\ calls[handlers[h].call].overlaps

\* ------------------------------------------------------------------------
\* C28 (session duration): every logged entry has the duration
\* floor((stopTs - playTs) / 1000), playTs being the timestamp a play call
\* returned and stopTs the timestamp a stop call returned, and that duration
\* is greater than 0; and a step of the play/pause stop handler that finds
\* a session start writes an entry exactly when its stop returned a
\* timestamp at least a second after the start.
\* ------------------------------------------------------------------------
C28_SessionDuration ==
    [][ /\ \A i \in 1..Len(sessions') :
              LET e == sessions'[i]
                  playCall == calls'[e.start]
                  stopCall == calls'[e.stop]
              IN  /\ playCall.op \in {"play", "transition"}
                  /\ playCall.path = "play" /\ playCall.ret = "ts"
                  /\ stopCall.op = "stop" /\ stopCall.ret = "ts"
                  /\ \E q \in 0..MaxTicks :
                        /\ 1000 * q <= stopCall.ts - playCall.ts
                        /\ stopCall.ts - playCall.ts < 1000 * (q + 1)
                        /\ e.duration = q
                  /\ e.duration > 0
        /\ \A h \in 1..Len(handlers) :
              (/\ handlers[h].kind = "playpause" /\ handlers[h].branch = "stop"
               /\ handlers[h].pc = "await" /\ handlers'[h].pc = "done"
               /\ state.sessionStart # 0)
              => LET written == Len(sessions') = Len(sessions) + 1
                     stopCall == calls[handlers[h].call]
                 IN  /\ written \/ sessions' = sessions
                     /\ written <=> (/\ stopCall.ret = "ts"
                                     /\ stopCall.ts - calls[state.sessionStart].ts >= 1000)
      ]_vars

\* an entry of one second was logged for a session that lasted 1.2 s
C28_Witness ==
    \E i \in 1..Len(sessions) :
        /\ sessions[i].duration = 1
        /\ calls[sessions[i].stop].ts - calls[sessions[i].start].ts = 1200

\* ------------------------------------------------------------------------
\* C26 (gain never exceeds the ceiling): when every setVolume call was made
\* with a percent in 0..100, the gain value and every scheduled gain target
\* lie between 0 and storedPercent/100 x 0.3 for the stored percent.
\* ------------------------------------------------------------------------
C26_GainWithinCeiling ==
    (\A c \in CallIds : calls[c].op = "volume" => calls[c].arg.val \in 0..100)
    => /\ gainNode.value \in 0..(3 * getVolume)
       /\ \A k \in 1..Len(gainNode.sched) : gainNode.sched[k].target \in 0..(3 * getVolume)

MaxLive == 2

NextLive ==
    \/ /\ Len(calls) < MaxLive
       /\ \E f \in PlayInputs, st \in {"suspended", "running"} : playFrequency(f, st)
       /\ UNCHANGED app
    \/ /\ Len(calls) < MaxLive
       /\ \E f \in TransitionInputs, st \in {"suspended", "running"} :
              transitionFrequency(f, st)
       /\ UNCHANGED app
    \/ /\ Len(calls) < MaxLive
       /\ stopSound
       /\ UNCHANGED app
    \/ /\ \E cid \in 1..MaxCalls, ok \in BOOLEAN : ResumeSettle(cid, ok)
       /\ UNCHANGED app
    \/ PlayAfterEnsure /\ UNCHANGED app
    \/ PlayAfterStop /\ UNCHANGED app
    \/ TransitionAfterEnsure /\ UNCHANGED app
    \/ FadeTimerFire /\ UNCHANGED app
    \/ CleanupTimerFire /\ UNCHANGED app
    \/ AudioClock /\ UNCHANGED app

SpecLive ==
    /\ Init
    /\ [][NextLive]_vars
    /\ WF_vars((\E cid \in 1..MaxCalls, ok \in BOOLEAN : ResumeSettle(cid, ok))
               /\ UNCHANGED app)
    /\ WF_vars(PlayAfterEnsure /\ UNCHANGED app)
    /\ WF_vars(PlayAfterStop /\ UNCHANGED app)
    /\ WF_vars(TransitionAfterEnsure /\ UNCHANGED app)
    /\ WF_vars(FadeTimerFire /\ UNCHANGED app)
    /\ WF_vars(CleanupTimerFire /\ UNCHANGED app)

\* ------------------------------------------------------------------------
\* C29 (every engine call completes): under the fair event loop every call
\* made eventually resolves or rejects, and the engine is settled (every
\* call completed, no timer pending, nothing queued) again and again.
\* ------------------------------------------------------------------------
C29_EveryCallCompletes ==
    /\ \A c \in 1..(MaxLive + 1) :
          (Len(calls) >= c)
          ~> (Len(calls) >= c /\ calls[c].result \in {"resolved", "rejected"})
    /\ []<>Settled

\* settled after a play whose resume() was declined and a stop that waited
\* for its fade
C29_Witness ==
    /\ Settled
    /\ \E c, d \in CallIds :
          /\ calls[c].declined /\ calls[c].result = "resolved"
          /\ calls[d].path = "stop" /\ calls[d].ret = "ts"

\* ------------------------------------------------------------------------
\* Journal modal and voice-to-text recording (commander.js).  A
\* SpeechRecognition is "started", "stopping" (its end event is due) or
\* "ended"; hidden records that its end handler restarted it while the
\* journal modal was closed.
\* ------------------------------------------------------------------------
MaxRecordings == 2
MaxJournalTimers == 2

RecordOutcomes == {"unsupported", "offline", "throws", "started"}

StopRecognition(r) ==
    IF r # 0 /\ recognitions[r].status = "started"
    THEN [recognitions EXCEPT ![r].status = "stopping"]
    ELSE recognitions

\* body of handleModalRecordAudio: a toggle
ModalRecordAudio(outcome) ==
    IF modalRecording.isRecording
    THEN /\ recognitions' = StopRecognition(modalRecording.recognition)
         /\ modalRecording' = [modalRecording EXCEPT !.isRecording = FALSE]
    ELSE IF outcome \in {"unsupported", "offline"}
    THEN UNCHANGED <<modalRecording, recognitions>>
    ELSE /\ Len(recognitions) < MaxRecordings
         /\ recognitions' = Append(recognitions,
                [status |-> IF outcome = "throws" THEN "ended" ELSE "started",
                 hidden |-> FALSE])
         /\ modalRecording' = [isRecording |-> outcome # "throws",
                               recognition |-> Len(recognitions) + 1,
                               hasError |-> FALSE]

\* the auto-stop block shared by handleCloseJournal and handleCloseAllModals
AutoStopRecording ==
    IF modalRecording.isRecording
    THEN /\ recognitions' = StopRecognition(modalRecording.recognition)
         /\ modalRecording' = [modalRecording EXCEPT !.isRecording = FALSE]
    ELSE UNCHANGED <<modalRecording, recognitions>>

openModal == journalModal' = TRUE

closeModal == journalModal' = FALSE

handleOpenJournal ==
    /\ openModal
    /\ UNCHANGED <<modalRecording, recognitions, journalTimers>>

handleOpenJournalWithAutoRecord ==
    /\ Len(journalTimers) < MaxJournalTimers
    /\ openModal
    /\ journalTimers' = Append(journalTimers, "autorecord")
    /\ UNCHANGED <<modalRecording, recognitions>>

\* click on the record button, which sits inside the journal modal
handleModalRecordAudio(outcome) ==
    /\ journalModal
    /\ ModalRecordAudio(outcome)
    /\ UNCHANGED <<journalModal, journalTimers>>

\* click on the modal's close button
handleCloseJournal ==
    /\ journalModal
    /\ AutoStopRecording
    /\ closeModal
    /\ UNCHANGED journalTimers

\* click on the backdrop, visible while the modal is
handleCloseAllModals ==
    /\ journalModal
    /\ AutoStopRecording
    /\ closeModal
    /\ UNCHANGED journalTimers

\* the Escape branch of the document's keydown listener
keydownEscape ==
    /\ closeModal
    /\ UNCHANGED <<modalRecording, recognitions, journalTimers>>

\* click on the save button inside the modal; text is getJournalText()
handleSaveJournal(text) ==
    /\ journalModal
    /\ IF text = ""
       THEN UNCHANGED journalTimers
       ELSE /\ Len(journalTimers) < MaxJournalTimers
            /\ journalTimers' = Append(journalTimers, "close")
    /\ UNCHANGED <<modalRecording, recognitions, journalModal>>

\* the 50 ms callback of handleSaveJournal fires before any 300 ms callback
\* created after it; callbacks of one delay fire in creation order
JournalTimerFire(i, outcome) ==
    /\ i \in 1..Len(journalTimers)
    /\ IF journalTimers[i] = "close"
       THEN /\ \A j \in 1..(i - 1) : journalTimers[j] # "close"
            /\ closeModal
            /\ UNCHANGED <<modalRecording, recognitions>>
       ELSE /\ i = 1
            /\ IF ~modalRecording.isRecording
               THEN ModalRecordAudio(outcome)
               ELSE UNCHANGED <<modalRecording, recognitions>>
            /\ UNCHANGED journalModal
    /\ journalTimers' = RemoveAt(journalTimers, i)

\* recognition.onerror: a critical error ends the recording state; the
\* platform delivers the end event after any error
recognitionOnError(r, critical) ==
    /\ r \in 1..Len(recognitions)
    /\ recognitions[r].status = "started"
    /\ recognitions' = [recognitions EXCEPT ![r].status = "stopping"]
    /\ modalRecording' = IF critical
                         THEN [modalRecording EXCEPT !.hasError = TRUE,
                                                     !.isRecording = FALSE]
                         ELSE modalRecording
    /\ UNCHANGED <<journalModal, journalTimers>>

\* recognition.onend, after stop(), an error or the platform's silence
\* timeout: restarts the session while modalRecording says recording
recognitionOnEnd(r, onLine) ==
    /\ r \in 1..Len(recognitions)
    /\ recognitions[r].status \in {"started", "stopping"}
    /\ IF modalRecording.isRecording /\ ~modalRecording.hasError /\ onLine
       THEN /\ recognitions' = [recognitions EXCEPT
                                    ![r].status = "started",
                                    ![r].hidden = @ \/ ~journalModal]
            /\ UNCHANGED modalRecording
       ELSE /\ recognitions' = [recognitions EXCEPT ![r].status = "ended"]
            /\ modalRecording' = IF ~onLine
                                 THEN [modalRecording EXCEPT !.hasError = TRUE,
                                                             !.isRecording = FALSE]
                                 ELSE modalRecording
    /\ UNCHANGED <<journalModal, journalTimers>>

tone == <<engine, microtasks, calls, state, autoplay, handlers, sessions, now>>

NextJournal ==
    \/ handleOpenJournal /\ UNCHANGED tone
    \/ handleOpenJournalWithAutoRecord /\ UNCHANGED tone
    \/ (\E outcome \in RecordOutcomes : handleModalRecordAudio(outcome))
       /\ UNCHANGED tone
    \/ handleCloseJournal /\ UNCHANGED tone
    \/ handleCloseAllModals /\ UNCHANGED tone
    \/ keydownEscape /\ UNCHANGED tone
    \/ (\E text \in {"", "text"} : handleSaveJournal(text)) /\ UNCHANGED tone
    \/ (\E i \in 1..MaxJournalTimers + 1, outcome \in RecordOutcomes :
            JournalTimerFire(i, outcome))
       /\ UNCHANGED tone
    \/ (\E r \in 1..MaxRecordings + 1, critical \in BOOLEAN :
            recognitionOnError(r, critical))
       /\ UNCHANGED tone
    \/ (\E r \in 1..MaxRecordings + 1, onLine \in BOOLEAN : recognitionOnEnd(r, onLine))
       /\ UNCHANGED tone

SpecJournal == Init /\ [][NextJournal]_vars

\* ------------------------------------------------------------------------
\* C30 (no recording behind a closed journal modal): while the journal
\* modal is closed modalRecording.isRecording is false, and no end handler
\* has restarted a recognition session behind the closed modal.
\* ------------------------------------------------------------------------
C30_NoRecordingBehindClosedModal ==
    /\ ~journalModal => ~modalRecording.isRecording
    /\ \A r \in 1..Len(recognitions) : ~recognitions[r].hidden

====
